---- MODULE Spec2Model ----
(***************************************************************************)
(* Model of ball_animation.py: one ball bouncing inside a WIDTH x HEIGHT   *)
(* canvas.  The module-level globals are the state, update() is the only   *)
(* operation; the animation driver (sk.animate / sk.run) calls it once per *)
(* frame, synchronously, on a single thread, so a call is one atomic step. *)
(***************************************************************************)
EXTENDS Integers, Sequences, FiniteSets, TLC

VARIABLES
    WIDTH,        \* line 4
    HEIGHT,       \* line 5
    canvas,       \* line 6: the sk.Canvas object
    ball_x,       \* line 9
    ball_y,       \* line 10
    ball_radius,  \* line 11
    dx,           \* line 12
    dy,           \* line 13
    ball_color,   \* line 14
    trace,        \* the statements the most recent call of update() executed, in order
    pre           \* <<>> before the first call, else <<globals at entry of the most recent call>>

vars == <<WIDTH, HEIGHT, canvas, ball_x, ball_y, ball_radius, dx, dy, ball_color, trace, pre>>

----------------------------------------------------------------------------
(* Bounds of the input space used for the per-call contracts.              *)

\* half-width of the windows of start positions around each wall contact point
Span == 5
\* largest speed (per axis) of an arbitrary pre-update state
MaxV == 5

----------------------------------------------------------------------------
(* The drawing surface (simplekit), from its contract.                     *)

\* sk.Canvas(width, height): nothing drawn, nothing shown, no call received
Canvas(width, height) ==
    [width |-> width, height |-> height, buffer |-> <<>>, display |-> <<>>, calls |-> <<>>]

\* canvas.clear(): erases all prior drawn content
canvas_clear(c) ==
    [c EXCEPT !.buffer = <<>>,
              !.calls = Append(@, [op |-> "clear", args |-> <<>>])]

\* canvas.circle(x, y, radius, fill): adds a filled circle to what is drawn
canvas_circle(c, x, y, radius, fill) ==
    [c EXCEPT !.buffer = Append(@, [x |-> x, y |-> y, radius |-> radius, fill |-> fill]),
              !.calls = Append(@, [op |-> "circle", args |-> <<x, y, radius, fill>>])]

\* canvas.update(): flushes the current drawing state to the visible display
canvas_update(c) ==
    [c EXCEPT !.display = c.buffer,
              !.calls = Append(@, [op |-> "update", args |-> <<>>])]

----------------------------------------------------------------------------
(* update(), statement by statement, on a record of the globals.           *)

Globals ==
    [WIDTH |-> WIDTH, HEIGHT |-> HEIGHT, canvas |-> canvas,
     ball_x |-> ball_x, ball_y |-> ball_y, ball_radius |-> ball_radius,
     dx |-> dx, dy |-> dy, ball_color |-> ball_color, trace |-> trace]

\* entry of a call: the per-call logs start empty
Enter(g) ==
    [g EXCEPT !.trace = <<>>, !.canvas.calls = <<>>]

\* Move with the second increment landing on the wrong global
Move_RadiusTypo(g) ==
    [g EXCEPT !.ball_x = g.ball_x + g.dx,
              !.ball_radius = g.ball_radius + g.dy,
              !.trace = Append(@, "move")]

\* lines 20-21
Move(g) ==
    [g EXCEPT !.ball_x = g.ball_x + g.dx,
              !.ball_y = g.ball_y + g.dy,
              !.trace = Append(@, "move")]

\* the X test with non-strict comparisons
HitsWallX_NonStrict(g) ==
    g.ball_x + g.ball_radius >= g.WIDTH \/ g.ball_x - g.ball_radius <= 0

\* the X test without its left-wall clause
HitsWallX_RightOnly(g) ==
    g.ball_x + g.ball_radius > g.WIDTH

\* the Y test with non-strict comparisons
HitsWallY_NonStrict(g) ==
    g.ball_y + g.ball_radius >= g.HEIGHT \/ g.ball_y - g.ball_radius <= 0

\* the condition of line 24
HitsWallX(g) ==
    g.ball_x + g.ball_radius > g.WIDTH \/ g.ball_x - g.ball_radius < 0

\* the condition of line 26
HitsWallY(g) ==
    g.ball_y + g.ball_radius > g.HEIGHT \/ g.ball_y - g.ball_radius < 0

\* BounceX that also puts the ball back against the wall it crossed
BounceX_Clamp(g) ==
    [g EXCEPT !.dx = IF HitsWallX(g) THEN -g.dx ELSE g.dx,
              !.ball_x = IF g.ball_x + g.ball_radius > g.WIDTH THEN g.WIDTH - g.ball_radius
                         ELSE IF g.ball_x - g.ball_radius < 0 THEN g.ball_radius
                         ELSE g.ball_x,
              !.trace = Append(@, "bounce_x")]

\* BounceX with "dx -= dx" for "dx = -dx"
BounceX_Typo(g) ==
    [g EXCEPT !.dx = IF HitsWallX(g) THEN g.dx - g.dx ELSE g.dx,
              !.trace = Append(@, "bounce_x")]

\* lines 24-25
BounceX(g) ==
    [g EXCEPT !.dx = IF HitsWallX(g) THEN -g.dx ELSE g.dx,
              !.trace = Append(@, "bounce_x")]

\* BounceY as the elif branch of the X test
BounceY_Elif(g) ==
    [g EXCEPT !.dy = IF ~HitsWallX(g) /\ HitsWallY(g) THEN -g.dy ELSE g.dy,
              !.trace = Append(@, "bounce_y")]

\* BounceY with "dy -= dy" for "dy = -dy"
BounceY_Typo(g) ==
    [g EXCEPT !.dy = IF HitsWallY(g) THEN g.dy - g.dy ELSE g.dy,
              !.trace = Append(@, "bounce_y")]

\* lines 26-27
BounceY(g) ==
    [g EXCEPT !.dy = IF HitsWallY(g) THEN -g.dy ELSE g.dy,
              !.trace = Append(@, "bounce_y")]

\* line 30
ClearCanvas(g) ==
    [g EXCEPT !.canvas = canvas_clear(@),
              !.trace = Append(@, "clear")]

\* line 33
DrawBall(g) ==
    [g EXCEPT !.canvas = canvas_circle(@, g.ball_x, g.ball_y, g.ball_radius, g.ball_color),
              !.trace = Append(@, "circle")]

\* line 36
UpdateDisplay(g) ==
    [g EXCEPT !.canvas = canvas_update(@),
              !.trace = Append(@, "update")]

----------------------------------------------------------------------------
(* The state machine.                                                      *)

\* the globals a call can read, as they are when the call starts
Entry ==
    [ball_x |-> ball_x, ball_y |-> ball_y, dx |-> dx, dy |-> dy]

\* lines 4-14: module initialisation
Init ==
    /\ WIDTH = 800
    /\ HEIGHT = 600
    /\ canvas = Canvas(WIDTH, HEIGHT)
    /\ ball_x = WIDTH \div 2
    /\ ball_y = HEIGHT \div 2
    /\ ball_radius = 20
    /\ dx = 5
    /\ dy = 5
    /\ ball_color = "red"
    /\ trace = <<>>
    /\ pre = <<>>

\* the globals take the values the call leaves in g
Store(g) ==
    /\ WIDTH' = g.WIDTH
    /\ HEIGHT' = g.HEIGHT
    /\ canvas' = g.canvas
    /\ ball_x' = g.ball_x
    /\ ball_y' = g.ball_y
    /\ ball_radius' = g.ball_radius
    /\ dx' = g.dx
    /\ dy' = g.dy
    /\ ball_color' = g.ball_color
    /\ trace' = g.trace

\* update() with the wall tests done before the move
Update_BounceFirst ==
    \E g0 \in {Enter(Globals)} :
    \E g1 \in {BounceX(g0)} :
    \E g2 \in {BounceY(g1)} :
    \E g3 \in {Move(g2)} :
    \E g4 \in {ClearCanvas(g3)} :
    \E g5 \in {DrawBall(g4)} :
    \E g6 \in {UpdateDisplay(g5)} :
        /\ Store(g6)
        /\ pre' = <<Entry>>

\* update() with the circle drawn before the canvas is cleared
Update_CircleBeforeClear ==
    \E g0 \in {Enter(Globals)} :
    \E g1 \in {Move(g0)} :
    \E g2 \in {BounceX(g1)} :
    \E g3 \in {BounceY(g2)} :
    \E g4 \in {DrawBall(g3)} :
    \E g5 \in {ClearCanvas(g4)} :
    \E g6 \in {UpdateDisplay(g5)} :
        /\ Store(g6)
        /\ pre' = <<Entry>>

\* lines 16-36: one frame, the driver calls update(); its statements in program order
Update ==
    \E g0 \in {Enter(Globals)} :
    \E g1 \in {Move(g0)} :
    \E g2 \in {BounceX(g1)} :
    \E g3 \in {BounceY(g2)} :
    \E g4 \in {ClearCanvas(g3)} :
    \E g5 \in {DrawBall(g4)} :
    \E g6 \in {UpdateDisplay(g5)} :
        /\ Store(g6)
        /\ pre' = <<Entry>>

\* lines 39-40: the driver's frame loop
Next == Update

Spec == Init /\ [][Next]_vars

\* the run loop keeps calling the registered callback
FairSpec == Spec /\ WF_vars(Update)

----------------------------------------------------------------------------
(* update() as a function of an arbitrary pre-update state: the start      *)
(* state is drawn from windows around the wall contact points and the      *)
(* centre, with every velocity up to MaxV, and update() is applied once.   *)

Near(c) == (c - Span)..(c + Span)

Speeds == (0 - MaxV)..MaxV

\* the canvas before a call: fresh, or holding the frame drawn for (x, y)
CanvasAt(x, y) ==
    LET c0 == Canvas(WIDTH, HEIGHT) IN
        {c0, canvas_update(canvas_circle(canvas_clear(c0), x, y, ball_radius, ball_color))}

InitAny ==
    /\ WIDTH = 800
    /\ HEIGHT = 600
    /\ ball_radius = 20
    /\ ball_color = "red"
    /\ ball_x \in Near(ball_radius) \cup Near(WIDTH - ball_radius) \cup {WIDTH \div 2}
    /\ ball_y \in Near(ball_radius) \cup Near(HEIGHT - ball_radius) \cup {HEIGHT \div 2}
    /\ dx \in Speeds
    /\ dy \in Speeds
    /\ canvas \in CanvasAt(ball_x, ball_y)
    /\ trace = <<>>
    /\ pre = <<>>

FirstUpdate == pre = <<>> /\ Update

NextAny == FirstUpdate

SpecAny == InitAny /\ [][NextAny]_vars

----------------------------------------------------------------------------
(* Vocabulary of the properties.                                           *)

Called == pre # <<>>

\* the current position is past a wall on the X / Y axis
OutX == ball_x + ball_radius > WIDTH \/ ball_x - ball_radius < 0
OutY == ball_y + ball_radius > HEIGHT \/ ball_y - ball_radius < 0

\* the most recent call negated dx / dy
FlippedX == Called /\ dx = 0 - pre[1].dx
FlippedY == Called /\ dy = 0 - pre[1].dy

TheCircle == [x |-> ball_x, y |-> ball_y, radius |-> ball_radius, fill |-> ball_color]

----------------------------------------------------------------------------
(* C1: one call of update() moves the ball by the velocity it had when the *)
(* call started, whatever reflection the same call does; from (400, 300)   *)
(* with velocity (5, 5) the result is (405, 305) with velocity (5, 5).     *)
C1_PositionUpdate ==
    Called =>
        /\ ball_x = pre[1].ball_x + pre[1].dx
        /\ ball_y = pre[1].ball_y + pre[1].dy
        /\ (pre[1] = [ball_x |-> 400, ball_y |-> 300, dx |-> 5, dy |-> 5]
                => ball_x = 405 /\ ball_y = 305 /\ dx = 5 /\ dy = 5)

\* a call that moved the ball into a wall and reflected it
C1_Witness ==
    /\ Called
    /\ pre[1].dx = 5 /\ dx = -5
    /\ ball_x = pre[1].ball_x + 5
    /\ OutX

(* C2: after one call, dx is the negation of the entry dx exactly when the *)
(* post-move ball_x is strictly past a wall, otherwise it is the entry dx; *)
(* a ball exactly touching a wall keeps dx; from x = 785, dx = 5 the call  *)
(* gives dx = -5 and leaves dy alone.                                      *)
C2_XReflection ==
    Called =>
        /\ (ball_x + ball_radius > WIDTH \/ ball_x - ball_radius < 0) => dx = 0 - pre[1].dx
        /\ ~(ball_x + ball_radius > WIDTH \/ ball_x - ball_radius < 0) => dx = pre[1].dx
        /\ (ball_x + ball_radius = WIDTH \/ ball_x - ball_radius = 0) => dx = pre[1].dx
        /\ (pre[1] = [ball_x |-> 785, ball_y |-> 300, dx |-> 5, dy |-> 5]
                => ball_x = 790 /\ dx = -5 /\ dy = 5)

\* scenario B happened
C2_Witness ==
    /\ Called
    /\ pre[1].ball_x = 785 /\ pre[1].dx = 5 /\ pre[1].ball_y = 300 /\ pre[1].dy = 5
    /\ ball_x = 790 /\ dx = -5 /\ dy = 5

(* C3: after one call, dy is negated exactly when the post-move ball_y is  *)
(* strictly past the top or bottom wall, whatever ball_x and dx are and    *)
(* whether or not dx was negated in the same call; from (15, 15) with      *)
(* velocity (-5, -5) both components become +5.                            *)
C3_YReflection ==
    Called =>
        /\ (ball_y + ball_radius > HEIGHT \/ ball_y - ball_radius < 0) => dy = 0 - pre[1].dy
        /\ ~(ball_y + ball_radius > HEIGHT \/ ball_y - ball_radius < 0) => dy = pre[1].dy
        /\ (pre[1] = [ball_x |-> 15, ball_y |-> 15, dx |-> -5, dy |-> -5]
                => dx = 5 /\ dy = 5)

\* scenario C happened: both axes reflected in one call
C3_Witness ==
    /\ Called
    /\ pre[1] = [ball_x |-> 15, ball_y |-> 15, dx |-> -5, dy |-> -5]
    /\ ball_x = 10 /\ ball_y = 10
    /\ dx = 5 /\ dy = 5

(* C4: every call issues clear(), circle(ball_x, ball_y, ball_radius,      *)
(* ball_color), update() in that order, after the move and both reflection *)
(* tests; the circle is at the post-move position, and what is flushed is  *)
(* exactly that one circle.                                                *)
C4_DrawOrder ==
    Called =>
        /\ trace = <<"move", "bounce_x", "bounce_y", "clear", "circle", "update">>
        /\ canvas.calls = << [op |-> "clear", args |-> <<>>],
                             [op |-> "circle", args |-> <<ball_x, ball_y, ball_radius, ball_color>>],
                             [op |-> "update", args |-> <<>>] >>
        /\ ball_x = pre[1].ball_x + pre[1].dx
        /\ ball_y = pre[1].ball_y + pre[1].dy
        /\ canvas.display = <<TheCircle>>
        /\ canvas.buffer = <<TheCircle>>

\* a frame after the first one: the earlier circle is gone from the display
C4_Witness ==
    /\ Called
    /\ pre[1].ball_x = 405 /\ ball_x = 410
    /\ Len(canvas.display) = 1
    /\ canvas.display[1].x = 410

(* C5: ball_radius, ball_color, WIDTH and HEIGHT keep their initial values *)
(* (20, "red", 800, 600) through any number of calls of update().          *)
C5_FixedFields ==
    /\ ball_radius = 20
    /\ ball_color = "red"
    /\ WIDTH = 800
    /\ HEIGHT = 600

\* calls have happened, reflections included, and the fields are as initialised
C5_Witness ==
    /\ FlippedX
    /\ dy = -5
    /\ ball_radius = 20 /\ ball_color = "red" /\ WIDTH = 800 /\ HEIGHT = 600

\* in a frame where a reflection fired, the ball is out of bounds on that axis and drawn there
C6_DrawnOutOfBounds ==
    /\ FlippedX => OutX /\ ball_x = pre[1].ball_x + pre[1].dx /\ canvas.display = <<TheCircle>>
    /\ FlippedY => OutY /\ ball_y = pre[1].ball_y + pre[1].dy /\ canvas.display = <<TheCircle>>

\* an out-of-bounds frame is followed by an in-bounds one; no two reflections in a row
C6_OneFrameOnly ==
    /\ OutX => ~OutX'
    /\ OutY => ~OutY'
    /\ FlippedX => ~FlippedX'
    /\ FlippedY => ~FlippedY'

(* C6: reflection never corrects the position, so the frame of a           *)
(* reflection shows the ball past the wall; from the initial state that    *)
(* lasts one frame: the next update leaves the ball within bounds on that  *)
(* axis and no velocity component is negated in two consecutive updates.   *)
C6_NoClampNoStick ==
    []C6_DrawnOutOfBounds /\ [][C6_OneFrameOnly]_vars

\* the frame after a reflection at the right wall: back in bounds, dx kept
C6_Witness ==
    /\ Called
    /\ pre[1].ball_x = 785 /\ pre[1].dx = -5
    /\ ball_x = 780 /\ dx = -5
    /\ ~OutX

\* one update negated both components
CornerHit == FlippedX /\ FlippedY

(* C7: from the initial state, after finitely many updates one update      *)
(* negates both dx and dy (a corner hit).                                  *)
C7_CornerHitReachable == <>CornerHit

\* the corner hit, with the ball past a wall on both axes
C7_Witness ==
    /\ CornerHit
    /\ OutX /\ OutY

(* C8: in every reachable state dx is 5 or -5 and dy is 5 or -5, and each  *)
(* of the four sign combinations of (dx, dy) is reached.                   *)
C8_SignBits ==
    /\ [](dx \in {5, -5} /\ dy \in {5, -5})
    /\ <>(dx = 5 /\ dy = 5)
    /\ <>(dx = 5 /\ dy = -5)
    /\ <>(dx = -5 /\ dy = 5)
    /\ <>(dx = -5 /\ dy = -5)

\* the combination furthest from the initial one, reached by two reflections
C8_Witness ==
    /\ Called
    /\ dx = -5 /\ dy = -5
    /\ ~OutX /\ ~OutY

(* C9: in every reachable state 15 <= ball_x <= 785 and 15 <= ball_y <=    *)
(* 585: the ball's edge is never more than one step past a wall.           *)
C9_PositionRange ==
    /\ 15 <= ball_x /\ ball_x <= 785
    /\ 15 <= ball_y /\ ball_y <= 585

\* the extremes are attained: the ball at the left limit, and at the bottom limit
C9_Witness ==
    /\ Called
    /\ ball_x = 15
    /\ ball_y \in {15, 585}

HitRight == FlippedX /\ ball_x + ball_radius > WIDTH
HitLeft == FlippedX /\ ball_x - ball_radius < 0
HitBottom == FlippedY /\ ball_y + ball_radius > HEIGHT
HitTop == FlippedY /\ ball_y - ball_radius < 0

(* C10: if the driver keeps calling update(), the ball reflects off each   *)
(* of the four walls infinitely often.                                     *)
C10_AllWallsForever ==
    /\ []<>HitRight
    /\ []<>HitLeft
    /\ []<>HitBottom
    /\ []<>HitTop

\* a reflection at the top wall, the last of the four to be met
C10_Witness ==
    /\ HitTop
    /\ ball_y = 15 /\ dy = 5

====
